---- MODULE Spec2Model ----
(***************************************************************************)
(* State-machine model of the go-prequal client (client/client.go): the    *)
(* probe pool, the HCL selector SelectReplica, the probe round Probe and   *)
(* the background prober probeLoop with Stop.                              *)
(*                                                                         *)
(* Durations and instants are integers (clock ticks).  NormalizedRIF, a    *)
(* float64 quotient in the code, is kept as the exact fraction <<n, d>>.   *)
(***************************************************************************)
EXTENDS Integers, Sequences, FiniteSets, TLC

\* ------------------------------------------------------------------ bounds
MaxTime == 4          \* the clock runs 0..MaxTime, in probe intervals (1 / r_probe)
UseCap == 2           \* SelectReplica is not called once a use count reached this
MaxPoolLen == 3       \* longest pool drawn by InitSelect
MaxRingLen == 6       \* longest latency ring drawn by InitEstimate
MaxRequests == 3      \* requests a replica receives in SpecServer

\* What a replica may answer to a probe in Spec: (rif, latency) pairs.
Responses == {<<0, 1>>, <<2, 0>>}

\* What the probes of the pools drawn by InitSelect may hold.
RIFValues == 0..3
LatencyValues == 0..1

\* What the samples of the rings drawn by InitEstimate may hold, and the
\* rifs getNearestLatencies is asked about.
RingRIFValues == {0, 3}
RingLatencyValues == {1, 2}
QueryValues == {0, 1, 3}

\* The duration a request handler measures in SpecServer (time.Since(start)).
RequestDurations == {3}

\* ----------------------------------------------------------- configuration
\* Config.Servers / ServerPool.Servers: the configured replica addresses.
Servers == <<"a", "b">>

\* Config.MaxProbePoolSize (M).
MaxProbePoolSize == 1

\* Config.MaxProbeUse (b_reuse), set once by NewClient.
MaxProbeUse == 1

\* Config.MaxProbeAge, in probe intervals.
MaxProbeAge == 3

\* Config.QRIFThreshold as the fraction QNum / QDen.
QNum == 1
QDen == 2

\* N of the spec: the number of replicas.
NumReplicas == Len(Servers)

NoServer == ""

VARIABLES
    probes,        \* Client.probes: the probe pool, a sequence of ProbeInfo
    maxRIF,        \* Client.maxRIF
    mu,            \* Client.mu: TRUE while the pool mutex is held
    pc,            \* position of the probeLoop goroutine
    idx,           \* index into pool.Servers of the fan-out loop of Probe
    done,          \* Client.done is closed and Client.probeTicker stopped
    tickC,         \* a tick is buffered in probeTicker.C
    now,           \* the clock
    sel,           \* the last SelectReplica call: the pool it ran on, its results
    round,         \* bookkeeping of the current / last probe round
    evicted,       \* the last removeProbe call: the pool it ran on
    built,         \* the last calculateBReuse call: its Config and result
    start,         \* the pool a drawn probe round found (InitRound)
    panicked,      \* the process died of an unrecovered panic
    poolMu,        \* Client.pool.mu: TRUE while Probe holds its read lock
    srvRIF,        \* Server.rif: the replica's requests-in-flight counter
    metrics,       \* MetricReporter.metrics: the replica's latency samples
    metricsMu,     \* MetricReporter.metricsMu: TRUE while recordMetric holds it
    reqs,          \* the replica's request handlers (goroutines), by slot
    est            \* the last getNearestLatencies call: arguments and result

srvVars == <<srvRIF, metrics, metricsMu, reqs, est>>

vars == <<probes, maxRIF, mu, pc, idx, done, tickC, now, sel, round, evicted, built,
          start, panicked, poolMu,
          srvRIF, metrics, metricsMu, reqs, est>>

\* ------------------------------------------------------------- ProbeInfo
\* NewProbeInfo labelling every probe with the first configured replica.
NewProbeInfoFirstServer(server, rif, latency, t) ==
    [RIF |-> rif, Latency |-> latency, ServerID |-> Servers[1], Timestamp |-> t,
     UseCount |-> 0, NormalizedRIF |-> <<0, 1>>]

\* return &ProbeInfo{RIF: ..., Latency: ..., ServerID: serverAddr,
\*                   Timestamp: time.Now(), UseCount: 0}
NewProbeInfo(server, rif, latency, t) ==
    [RIF |-> rif, Latency |-> latency, ServerID |-> server, Timestamp |-> t,
     UseCount |-> 0, NormalizedRIF |-> <<0, 1>>]

RECURSIVE Gcd(_, _)
Gcd(a, b) == IF b = 0 THEN a ELSE Gcd(b, a % b)

\* The float64 quotient n / d, kept in lowest terms.
Quot(n, d) == IF n = 0 THEN <<0, 1>> ELSE <<n \div Gcd(n, d), d \div Gcd(n, d)>>

\* x >= y for fractions with positive denominators.
FracGeq(x, y) == x[1] * y[2] >= y[1] * x[2]

updateRIFDistribution(probe, mx) ==
    IF mx > 0
    THEN [probe EXCEPT !.NormalizedRIF = Quot(probe.RIF, mx)]
    ELSE [probe EXCEPT !.NormalizedRIF = <<1, 1>>]

isProbeHot(probe) == FracGeq(probe.NormalizedRIF, <<QNum, QDen>>)

\* ------------------------------------------------------- SelectReplica
hotProbes(ps) == SelectSeq(ps, isProbeHot)

coldProbes(ps) == SelectSeq(ps, LAMBDA p : ~isProbeHot(p))

\* minRIFScan with <= for <: the last of the probes of smallest rif wins.
RECURSIVE minRIFScanLastTie(_, _, _)
minRIFScanLastTie(ps, i, s) ==
    IF i > Len(ps) THEN s
    ELSE minRIFScanLastTie(ps, i + 1, IF ps[i].RIF <= ps[s].RIF THEN i ELSE s)

\* for i := range coldProbes { if coldProbes[i].RIF < selected.RIF {...} }
RECURSIVE minRIFScan(_, _, _)
minRIFScan(ps, i, s) ==
    IF i > Len(ps) THEN s
    ELSE minRIFScan(ps, i + 1, IF ps[i].RIF < ps[s].RIF THEN i ELSE s)

\* minLatencyScan comparing RIF, as the cold branch does.
RECURSIVE minLatencyScanByRIF(_, _, _)
minLatencyScanByRIF(ps, i, s) ==
    IF i > Len(ps) THEN s
    ELSE minLatencyScanByRIF(ps, i + 1, IF ps[i].RIF < ps[s].RIF THEN i ELSE s)

\* for i := range hotProbes { if hotProbes[i].Latency < selected.Latency {...} }
RECURSIVE minLatencyScan(_, _, _)
minLatencyScan(ps, i, s) ==
    IF i > Len(ps) THEN s
    ELSE minLatencyScan(ps, i + 1, IF ps[i].Latency < ps[s].Latency THEN i ELSE s)

\* A cold branch that passes over the probes already used, while one is unused.
selectColdUnused(cold) ==
    LET unused == SelectSeq(cold, LAMBDA p : p.UseCount = 0) IN
    IF Len(unused) > 0 THEN unused[minRIFScan(unused, 1, 1)]
    ELSE cold[minRIFScan(cold, 1, 1)]

selectCold(cold) == cold[minRIFScan(cold, 1, 1)]

\* A hot branch that takes the first hot probe, whatever its latency.
selectHotFirst(hot) == hot[1]

selectHot(hot) == hot[minLatencyScan(hot, 1, 1)]

\* selectedProbe with the branches swapped: hot probes are preferred.
selectedProbeHotFirst(ps) ==
    IF Len(hotProbes(ps)) > 0
    THEN selectHot(hotProbes(ps))
    ELSE selectCold(coldProbes(ps))

\* The probe `selected` points to (a copy held in coldProbes / hotProbes).
selectedProbe(ps) ==
    IF Len(coldProbes(ps)) > 0
    THEN selectCold(coldProbes(ps))
    ELSE selectHot(hotProbes(ps))

\* for i := range c.probes { if c.probes[i].ServerID == selected.ServerID {
\*     c.probes[i].UseCount++; break } }
RECURSIVE incrementUseCount(_, _, _)
incrementUseCount(ps, i, serverID) ==
    IF i > Len(ps) THEN ps
    ELSE IF ps[i].ServerID = serverID
         THEN [ps EXCEPT ![i].UseCount = @ + 1]
         ELSE incrementUseCount(ps, i + 1, serverID)

\* noProbesAvailable testing the cold slice instead of the pool.
noColdProbesAvailable(ps) == Len(coldProbes(ps)) = 0

\* if len(c.probes) == 0 { return "", fmt.Errorf("no probes available") }
noProbesAvailable(ps) == Len(ps) = 0

\* SelectReplicaOn falling back to the first configured replica when the pool
\* holds no cold probe.
SelectReplicaStaticFallback(ps) ==
    IF noProbesAvailable(ps)
    THEN [id |-> NoServer, err |-> TRUE, probes |-> ps, chosen |-> <<>>]
    ELSE IF Len(coldProbes(ps)) > 0
         THEN LET selected == selectCold(coldProbes(ps)) IN
              [id |-> selected.ServerID, err |-> FALSE,
               probes |-> incrementUseCount(ps, 1, selected.ServerID),
               chosen |-> <<selected>>]
         ELSE [id |-> Servers[1], err |-> FALSE,
               probes |-> incrementUseCount(ps, 1, Servers[1]),
               chosen |-> <<>>]

\* The whole critical section of SelectReplica on pool ps: the returned
\* (server id, error) and the pool it leaves.
SelectReplicaOn(ps) ==
    IF noProbesAvailable(ps)
    THEN [id |-> NoServer, err |-> TRUE, probes |-> ps, chosen |-> <<>>]
    ELSE LET selected == selectedProbe(ps) IN
         [id |-> selected.ServerID, err |-> FALSE,
          probes |-> incrementUseCount(ps, 1, selected.ServerID),
          chosen |-> <<selected>>]

\* ------------------------------------------------------------- Probe
\* isFresh with <= for < in the age test.
isFreshInclusive(probe, t) ==
    /\ t - probe.Timestamp <= MaxProbeAge
    /\ probe.UseCount < MaxProbeUse

\* removeStaleAndOverusedProbes: keep the probes that are young and little used.
isFresh(probe, t) ==
    /\ t - probe.Timestamp < MaxProbeAge
    /\ probe.UseCount < MaxProbeUse

\* A purge by age alone: overused probes stay.
removeAgedProbes(ps, t) == SelectSeq(ps, LAMBDA p : t - p.Timestamp < MaxProbeAge)

removeStaleAndOverusedProbes(ps, t) == SelectSeq(ps, LAMBDA p : isFresh(p, t))

\* staleCount of removeStaleAndOverusedProbes, handed to metrics.AddStaleProbes.
staleCount(ps, t) == Len(SelectSeq(ps, LAMBDA p : ~isFresh(p, t)))

\* A removal that moves the last probe into the place of the removed one.
RECURSIVE removeScanSwapping(_, _, _)
removeScanSwapping(ps, i, serverID) ==
    IF i > Len(ps) THEN ps
    ELSE IF ps[i].ServerID = serverID
         THEN IF i = Len(ps) THEN SubSeq(ps, 1, i - 1)
              ELSE SubSeq(ps, 1, i - 1) \o <<ps[Len(ps)]>> \o SubSeq(ps, i + 1, Len(ps) - 1)
         ELSE removeScanSwapping(ps, i + 1, serverID)

\* for i, probe := range c.probes { if probe.ServerID == serverID {
\*     c.probes = append(c.probes[:i], c.probes[i+1:]...); return } }
RECURSIVE removeScan(_, _, _)
removeScan(ps, i, serverID) ==
    IF i > Len(ps) THEN ps
    ELSE IF ps[i].ServerID = serverID
         THEN SubSeq(ps, 1, i - 1) \o SubSeq(ps, i + 1, Len(ps))
         ELSE removeScan(ps, i + 1, serverID)

\* A removal that drops every probe of the server, not the first alone.
removeAllByServerID(ps, serverID) == SelectSeq(ps, LAMBDA p : p.ServerID # serverID)

removeProbeByServerID(ps, serverID) == removeScan(ps, 1, serverID)

\* for i, probe := range hotProbes { if probe.RIF > hotProbes[maxRIFIndex].RIF {...} }
RECURSIVE maxRIFScan(_, _, _)
maxRIFScan(ps, i, s) ==
    IF i > Len(ps) THEN s
    ELSE maxRIFScan(ps, i + 1, IF ps[i].RIF > ps[s].RIF THEN i ELSE s)

\* for i, probe := range c.probes { if probe.Latency > c.probes[maxLatencyIndex].Latency {...} }
RECURSIVE maxLatencyScan(_, _, _)
maxLatencyScan(ps, i, s) ==
    IF i > Len(ps) THEN s
    ELSE maxLatencyScan(ps, i + 1, IF ps[i].Latency > ps[s].Latency THEN i ELSE s)

removeProbe(ps) ==
    IF Len(ps) = 0 THEN ps
    ELSE IF Len(hotProbes(ps)) > 0
         THEN removeProbeByServerID(
                  ps, hotProbes(ps)[maxRIFScan(hotProbes(ps), 1, 1)].ServerID)
         ELSE removeProbeByServerID(ps, ps[maxLatencyScan(ps, 1, 1)].ServerID)

\* if len(c.probes) >= c.config.MaxProbePoolSize { c.removeProbe() }
reserveCapacity(ps) ==
    IF Len(ps) >= MaxProbePoolSize THEN removeProbe(ps) ELSE ps

\* updateMaxRIF without the comparison: the latest rif is stored.
updateMaxRIFLatest(mx, rif) == rif

\* if probeInfo.RIF > c.maxRIF { c.maxRIF = probeInfo.RIF }
updateMaxRIF(mx, rif) == IF rif > mx THEN rif ELSE mx

\* A normalisation of the newest probe alone.
normalizeLast(ps, mx) ==
    [i \in 1..Len(ps) |-> IF i = Len(ps) THEN updateRIFDistribution(ps[i], mx) ELSE ps[i]]

\* for i := range c.probes { c.updateRIFDistribution(&c.probes[i]) }
normalizeAll(ps, mx) == [i \in 1..Len(ps) |-> updateRIFDistribution(ps[i], mx)]

\* ------------------------------------------------- replica: MetricReporter
\* NewMetricReporter: maxMetrics.
maxMetrics == 1000

\* The number of nearest samples getNearestLatencies keeps (h.Len() > 5).
NearestK == 5

\* uint64 arithmetic wraps; the modulus is scaled to what TLC's integers hold.
UintModulus == 2 ^ 16

Metric(rif, latency) == [RIF |-> rif, Latency |-> latency]

\* recordMetric: append, then drop the oldest sample beyond maxMetrics.
recordMetric(ms, rif, latency) ==
    LET appended == Append(ms, Metric(rif, latency)) IN
    IF Len(appended) > maxMetrics THEN Tail(appended) ELSE appended

\* MaxHeap (sort.Interface over []Metric): the largest RIF field on top.
\* Positions are 0-based as in the code; h[i + 1] is element i.
MaxHeapLess(h, i, j) == h[i + 1].RIF > h[j + 1].RIF

MaxHeapSwap(h, i, j) == [h EXCEPT ![i + 1] = h[j + 1], ![j + 1] = h[i + 1]]

\* container/heap up(h, j), as run by heap.Push.
RECURSIVE heapUp(_, _)
heapUp(h, j) ==
    IF j = 0 THEN h
    ELSE LET i == (j - 1) \div 2 IN
         IF ~MaxHeapLess(h, j, i) THEN h
         ELSE heapUp(MaxHeapSwap(h, i, j), i)

\* container/heap down(h, i, n), as run by heap.Pop.
RECURSIVE heapDown(_, _, _)
heapDown(h, i, n) ==
    LET j1 == 2 * i + 1 IN
    IF j1 >= n THEN h
    ELSE LET j == IF j1 + 1 < n /\ MaxHeapLess(h, j1 + 1, j1) THEN j1 + 1 ELSE j1 IN
         IF ~MaxHeapLess(h, j, i) THEN h
         ELSE heapDown(MaxHeapSwap(h, i, j), j, n)

\* heap.Push(h, x)
heapPush(h, x) == heapUp(Append(h, x), Len(h))

\* heap.Pop(h): the heap left and the item removed.
heapPop(h) ==
    LET n == Len(h) - 1
        sifted == heapDown(MaxHeapSwap(h, 0, n), 0, n)
    IN [heap |-> SubSeq(sifted, 1, n), item |-> sifted[n + 1]]

\* absDiff computed as metric.RIF - rif without the branch: uint64 wraps.
absDiffWrapping(metricRIF, rif) == (metricRIF - rif) % UintModulus

\* if metric.RIF > rif { absDiff = metric.RIF - rif } else { absDiff = rif - metric.RIF }
absDiff(metricRIF, rif) ==
    IF metricRIF > rif THEN metricRIF - rif ELSE rif - metricRIF

\* One iteration of the loop over m.metrics: heap.Push(h, customMetric);
\* if h.Len() > 5 { heap.Pop(h) }
nearestStep(h, metric, rif) ==
    LET pushed == heapPush(h, Metric(absDiff(metric.RIF, rif), metric.Latency)) IN
    IF Len(pushed) > NearestK THEN heapPop(pushed).heap ELSE pushed

\* for _, metric := range m.metrics {...}: the samples lo..hi in ring order,
\* starting from heap h. The range is halved and the heap of the left half
\* is settled first (it never holds more than NearestK samples), which keeps
\* the evaluation shallow on a full ring.
RECURSIVE nearestScan(_, _, _, _, _)
nearestScan(ms, lo, hi, rif, h) ==
    IF lo > hi THEN h
    ELSE IF lo = hi THEN nearestStep(h, ms[lo], rif)
    ELSE LET mid == (lo + hi) \div 2
             left == nearestScan(ms, lo, mid, rif, h)
         IN  IF Len(left) > NearestK THEN left
             ELSE nearestScan(ms, mid + 1, hi, rif, left)

\* for i := range latencies { latencies[i] = heap.Pop(h).(Metric).Latency }
RECURSIVE popLatencies(_)
popLatencies(h) ==
    IF Len(h) = 0 THEN <<>>
    ELSE LET r == heapPop(h) IN <<r.item.Latency>> \o popLatencies(r.heap)

\* sort.Slice(latencies, less): ascending order.
RECURSIVE insertSorted(_, _)
insertSorted(sorted, x) ==
    IF Len(sorted) = 0 THEN <<x>>
    ELSE IF x < Head(sorted) THEN <<x>> \o sorted
         ELSE <<Head(sorted)>> \o insertSorted(Tail(sorted), x)

RECURSIVE sortAscending(_)
sortAscending(xs) ==
    IF Len(xs) = 0 THEN <<>>
    ELSE insertSorted(sortAscending(Tail(xs)), Head(xs))

\* return latencies[len(latencies)/2], at the upper of two middle elements.
medianOf(latencies) == latencies[(Len(latencies) \div 2) + 1]

getNearestLatencies(ms, rif) ==
    IF Len(ms) = 0 THEN 0
    ELSE medianOf(sortAscending(popLatencies(nearestScan(ms, 1, Len(ms), rif, <<>>))))

\* ------------------------------------------------------------ the machine
NoSel == [called |-> FALSE, pre |-> <<>>, preMax |-> 0, id |-> NoServer,
          err |-> FALSE, chosen |-> <<>>]

NoRound == [finished |-> FALSE, allOK |-> FALSE, inserted |-> 0, purgeTime |-> 0,
            stale |-> 0]

NoEst == [called |-> FALSE, q |-> 0, value |-> 0]

NoEvict == [called |-> FALSE, pre |-> <<>>]

NoBuilt == [called |-> FALSE, config |-> <<>>, bReuse |-> 0]

\* NewServer / NewMetricReporter: counter 0, no sample, no request.
ServerInit ==
    /\ srvRIF = 0
    /\ metrics = <<>>
    /\ reqs = <<>>
    /\ metricsMu = FALSE
    /\ est = NoEst

\* NewClient: empty pool, maxRIF 0, ticker running, probeLoop started.
ClientInit ==
    /\ probes = <<>>
    /\ maxRIF = 0
    /\ mu = FALSE
    /\ pc = "select"
    /\ idx = 0
    /\ done = FALSE
    /\ tickC = FALSE
    /\ now = 0
    /\ sel = NoSel
    /\ round = NoRound
    /\ evicted = NoEvict
    /\ built = NoBuilt
    /\ start = <<>>
    /\ panicked = FALSE
    /\ poolMu = FALSE

Init == ClientInit /\ ServerInit

\* A lock that never blocks.
muIgnored(m) == TRUE

\* c.mu.Lock() returns only when no other critical section holds c.mu.
muFree(m) == ~m

\* One probe interval passes and the running ticker delivers a tick into its
\* one-slot channel (a tick that finds the slot full is dropped).
TickerFire ==
    /\ ~done
    /\ now < MaxTime
    /\ now' = now + 1
    /\ tickC' = TRUE
    /\ sel' = NoSel
    /\ UNCHANGED <<probes, maxRIF, mu, pc, idx, done, round>>
    /\ UNCHANGED <<srvVars, evicted, built, start, panicked, poolMu>>

\* One probe interval passes after the ticker was stopped.
ClockTick ==
    /\ done
    /\ now < MaxTime
    /\ now' = now + 1
    /\ sel' = NoSel
    /\ UNCHANGED <<probes, maxRIF, mu, pc, idx, done, tickC, round>>
    /\ UNCHANGED <<srvVars, evicted, built, start, panicked, poolMu>>

\* A prober that leaves as soon as done is closed, wherever it stands.
LoopDoneAnywhere ==
    /\ pc \in {"select", "fanout"}
    /\ done
    /\ pc' = "exited"
    /\ sel' = NoSel
    /\ UNCHANGED <<probes, maxRIF, mu, idx, done, tickC, now, round>>
    /\ UNCHANGED <<srvVars, evicted, built, start, panicked, poolMu>>

\* probeLoop: case <-c.done
LoopDone ==
    /\ pc = "select"
    /\ done
    /\ pc' = "exited"
    /\ sel' = NoSel
    /\ UNCHANGED <<probes, maxRIF, mu, idx, done, tickC, now, round>>
    /\ UNCHANGED <<srvVars, evicted, built, start, panicked, poolMu>>

\* probeLoop: case <-c.probeTicker.C, then Probe up to the fan-out loop:
\* c.mu.Lock(); removeStaleAndOverusedProbes(); capacity reserve;
\* c.pool.mu.RLock().
ProbeBegin ==
    /\ pc = "select"
    /\ tickC
    /\ muFree(mu)
    /\ tickC' = FALSE
    /\ mu' = TRUE
    /\ probes' = reserveCapacity(removeStaleAndOverusedProbes(probes, now))
    /\ round' = [finished |-> FALSE, allOK |-> TRUE, inserted |-> 0,
                 purgeTime |-> now,
                 stale |-> staleCount(probes, now)]
    /\ poolMu' = TRUE
    /\ idx' = 1
    /\ pc' = "fanout"
    /\ sel' = NoSel
    /\ UNCHANGED <<maxRIF, done, now>>
    /\ UNCHANGED <<srvVars, evicted, built, start, panicked>>

\* A fan-out loop that probes the same replica again after a success.
ProbeServerOKRepeats(rif, latency) ==
    /\ pc = "fanout"
    /\ idx <= Len(Servers)
    /\ round.inserted <= Len(Servers)
    /\ maxRIF' = updateMaxRIF(maxRIF, rif)
    /\ probes' = Append(probes, NewProbeInfo(Servers[idx], rif, latency, now))
    /\ round' = [round EXCEPT !.inserted = @ + 1]
    /\ idx' = IF round.inserted = 0 THEN idx ELSE idx + 1
    /\ sel' = NoSel
    /\ UNCHANGED <<mu, pc, done, tickC, now>>
    /\ UNCHANGED <<srvVars, evicted, built, start, panicked, poolMu>>

\* Probe, one iteration of the fan-out loop: ProbeServer succeeded.
ProbeServerOK(rif, latency) ==
    /\ pc = "fanout"
    /\ idx <= Len(Servers)
    /\ maxRIF' = updateMaxRIF(maxRIF, rif)
    /\ probes' = Append(probes, NewProbeInfo(Servers[idx], rif, latency, now))
    /\ round' = [round EXCEPT !.inserted = @ + 1]
    /\ idx' = idx + 1
    /\ sel' = NoSel
    /\ UNCHANGED <<mu, pc, done, tickC, now>>
    /\ UNCHANGED <<srvVars, evicted, built, start, panicked, poolMu>>

\* A failed ProbeServer whose zero-valued result is appended all the same.
ProbeServerFailInserts ==
    /\ pc = "fanout"
    /\ idx <= Len(Servers)
    /\ probes' = Append(probes, NewProbeInfo(Servers[idx], 0, 0, now))
    /\ round' = [round EXCEPT !.allOK = FALSE]
    /\ idx' = idx + 1
    /\ sel' = NoSel
    /\ UNCHANGED <<maxRIF, mu, pc, done, tickC, now>>
    /\ UNCHANGED <<srvVars, evicted, built, start, panicked, poolMu>>

\* Probe, one iteration of the fan-out loop: ProbeServer returned an error.
ProbeServerFail ==
    /\ pc = "fanout"
    /\ idx <= Len(Servers)
    /\ round' = [round EXCEPT !.allOK = FALSE]
    /\ idx' = idx + 1
    /\ sel' = NoSel
    /\ UNCHANGED <<probes, maxRIF, mu, pc, done, tickC, now>>
    /\ UNCHANGED <<srvVars, evicted, built, start, panicked, poolMu>>

\* A round that reserves capacity after its insertions, not before.
ProbeEndEvicting ==
    /\ pc = "fanout"
    /\ idx > Len(Servers)
    /\ probes' = normalizeAll(reserveCapacity(probes), maxRIF)
    /\ round' = [round EXCEPT !.finished = TRUE]
    /\ poolMu' = FALSE
    /\ mu' = FALSE
    /\ pc' = "select"
    /\ idx' = 0
    /\ sel' = NoSel
    /\ UNCHANGED <<maxRIF, done, tickC, now>>
    /\ UNCHANGED <<srvVars, evicted, built, start, panicked>>

\* A round that returns without c.mu.Unlock().
ProbeEndKeepsLock ==
    /\ pc = "fanout"
    /\ idx > Len(Servers)
    /\ probes' = normalizeAll(probes, maxRIF)
    /\ round' = [round EXCEPT !.finished = TRUE]
    /\ poolMu' = FALSE
    /\ pc' = "select"
    /\ idx' = 0
    /\ sel' = NoSel
    /\ UNCHANGED <<maxRIF, mu, done, tickC, now>>
    /\ UNCHANGED <<srvVars, evicted, built, start, panicked>>

\* Probe: the normalisation loop, c.pool.mu.RUnlock(), then the deferred
\* c.mu.Unlock().
ProbeEnd ==
    /\ pc = "fanout"
    /\ idx > Len(Servers)
    /\ probes' = normalizeAll(probes, maxRIF)
    /\ round' = [round EXCEPT !.finished = TRUE]
    /\ poolMu' = FALSE
    /\ mu' = FALSE
    /\ pc' = "select"
    /\ idx' = 0
    /\ sel' = NoSel
    /\ UNCHANGED <<maxRIF, done, tickC, now>>
    /\ UNCHANGED <<srvVars, evicted, built, start, panicked>>

\* A foreground caller runs SelectReplica (one critical section under c.mu).
SelectReplica ==
    /\ muFree(mu)
    /\ \A i \in 1..Len(probes) : probes[i].UseCount < UseCap
    /\ LET r == SelectReplicaOn(probes) IN
       /\ probes' = r.probes
       /\ sel' = [called |-> TRUE, pre |-> probes, preMax |-> maxRIF, id |-> r.id,
                  err |-> r.err, chosen |-> r.chosen]
    /\ UNCHANGED <<maxRIF, mu, pc, idx, done, tickC, now, round>>
    /\ UNCHANGED <<srvVars, evicted, built, start, panicked, poolMu>>

\* Stop on a running client: close(c.done); c.probeTicker.Stop(). A call on
\* a stopped client is StopAgain.
Stop ==
    /\ ~done
    /\ done' = TRUE
    /\ sel' = NoSel
    /\ UNCHANGED <<probes, maxRIF, mu, pc, idx, tickC, now, round>>
    /\ UNCHANGED <<srvVars, evicted, built, start, panicked, poolMu>>

Next ==
    \/ TickerFire
    \/ ClockTick
    \/ LoopDone
    \/ ProbeBegin
    \/ \E r \in Responses : ProbeServerOK(r[1], r[2])
    \/ ProbeServerFail
    \/ ProbeEnd
    \/ SelectReplica
    \/ Stop

Spec == Init /\ [][Next]_vars

\* The goroutine scheduler runs the prober's own steps: the select of
\* probeLoop and the code of Probe around the HTTP calls. http.Get carries no
\* timeout (http.DefaultClient), so no answer of a replica is promised.
SpecFair ==
    /\ Spec
    /\ WF_vars(LoopDone \/ ProbeBegin)
    /\ WF_vars(ProbeEnd)

\* SpecFair with every probe request returning, with an answer or an error.
SpecAnswered ==
    /\ SpecFair
    /\ WF_vars(ProbeServerFail \/ \E r \in Responses : ProbeServerOK(r[1], r[2]))

\* ------------------------------------------------------ Stop, called again
\* close(c.done): closes the channel; closing a closed channel panics.
closeDone(closed) == [closed |-> TRUE, panic |-> closed]

\* Stop on a client that was stopped before: close(c.done) runs first, and
\* the panic it raises is recovered nowhere, so the process dies before
\* c.probeTicker.Stop() is reached.
StopAgain ==
    /\ done
    /\ ~panicked
    /\ done' = closeDone(done).closed
    /\ panicked' = closeDone(done).panic
    /\ sel' = NoSel
    /\ UNCHANGED <<probes, maxRIF, mu, pc, idx, tickC, now, round>>
    /\ UNCHANGED <<srvVars, evicted, built, start, poolMu>>

\* The prober and the callers of Stop, while the process lives.
NextStop ==
    \/ StopAgain
    \/ ~panicked /\ TickerFire
    \/ ~panicked /\ ClockTick
    \/ ~panicked /\ LoopDone
    \/ ~panicked /\ ProbeBegin
    \/ ~panicked /\ \E r \in Responses : ProbeServerOK(r[1], r[2])
    \/ ~panicked /\ ProbeServerFail
    \/ ~panicked /\ ProbeEnd
    \/ ~panicked /\ Stop

SpecStop == Init /\ [][NextStop]_vars

\* ------------------------------------------ probe rounds with their first pool
\* ProbeBegin, recording in start the pool the round found.
ProbeBeginRecorded ==
    /\ pc = "select"
    /\ tickC
    /\ muFree(mu)
    /\ tickC' = FALSE
    /\ mu' = TRUE
    /\ start' = probes
    /\ probes' = reserveCapacity(removeStaleAndOverusedProbes(probes, now))
    /\ round' = [finished |-> FALSE, allOK |-> TRUE, inserted |-> 0,
                 purgeTime |-> now,
                 stale |-> staleCount(probes, now)]
    /\ poolMu' = TRUE
    /\ idx' = 1
    /\ pc' = "fanout"
    /\ sel' = NoSel
    /\ UNCHANGED <<maxRIF, done, now>>
    /\ UNCHANGED <<srvVars, evicted, built, panicked>>

\* ProbeEnd, forgetting the pool the round found.
ProbeEndRecorded ==
    /\ pc = "fanout"
    /\ idx > Len(Servers)
    /\ probes' = normalizeAll(probes, maxRIF)
    /\ round' = [round EXCEPT !.finished = TRUE]
    /\ start' = <<>>
    /\ poolMu' = FALSE
    /\ mu' = FALSE
    /\ pc' = "select"
    /\ idx' = 0
    /\ sel' = NoSel
    /\ UNCHANGED <<maxRIF, done, tickC, now>>
    /\ UNCHANGED <<srvVars, evicted, built, panicked>>

\* The running client: ticks, probe rounds and selections, no Stop.
NextRound ==
    \/ TickerFire
    \/ ProbeBeginRecorded
    \/ \E r \in Responses : ProbeServerOK(r[1], r[2])
    \/ ProbeServerFail
    \/ ProbeEndRecorded
    \/ SelectReplica

SpecRound == Init /\ [][NextRound]_vars

\* --------------------------------------------- SelectReplica on drawn pools
\* The pools between two probe rounds: every probe carries the normalisation
\* of the last round, rif / maxRIF with maxRIF at least every rif of the pool.
\* Each is reached with the default MaxProbePoolSize of 16 by rounds in which
\* one replica answers and the others fail.
ProbesAt(mx) ==
    { updateRIFDistribution(NewProbeInfo(Servers[k], r, l, 1), mx) :
        k \in 1..Len(Servers), r \in {v \in RIFValues : v <= mx}, l \in LatencyValues }

InitSelect ==
    /\ \E mx \in RIFValues, n \in 0..MaxPoolLen :
          /\ maxRIF = mx
          /\ probes \in [1..n -> ProbesAt(mx)]
    /\ mu = FALSE
    /\ pc = "select"
    /\ idx = 0
    /\ done = FALSE
    /\ tickC = FALSE
    /\ now = 1
    /\ sel = NoSel
    /\ round = [NoRound EXCEPT !.finished = TRUE, !.purgeTime = 1]
    /\ evicted = NoEvict
    /\ built = NoBuilt
    /\ start = <<>>
    /\ panicked = FALSE
    /\ poolMu = FALSE
    /\ ServerInit

NextSelect == SelectReplica

SpecSelect == InitSelect /\ [][NextSelect]_vars

\* ----------------------------------------------- removeProbe on drawn pools
\* The pools removeProbe may find: those of InitSelect, the empty pool included.
InitEvict == InitSelect

\* One call c.removeProbe() (evict-one), under the lock Probe holds.
RemoveProbe ==
    /\ ~evicted.called
    /\ probes' = removeProbe(probes)
    /\ evicted' = [called |-> TRUE, pre |-> probes]
    /\ UNCHANGED <<maxRIF, mu, pc, idx, done, tickC, now, sel, round, built>>
    /\ UNCHANGED <<start, panicked, poolMu>>
    /\ UNCHANGED srvVars

NextEvict == RemoveProbe

SpecEvict == InitEvict /\ [][NextEvict]_vars

\* ------------------------------------------------------- calculateBReuse
\* The Config fields calculateBReuse reads, after NewClient's defaults:
\* ProbeRate and DeltaReuse as fractions <<n, d>>, MaxProbeAge in seconds.
PoolSizes == {1, 2, 16}
ReplicaCounts == {1, 2, 5}
ProbeRates == {<<1, 10>>, <<1, 2>>, <<1, 1>>}
ProbeAges == {2, 5, 10}
DeltaReuses == {<<1, 10>>, <<1, 1>>}

Configs ==
    [MaxProbePoolSize : PoolSizes, NumReplicas : ReplicaCounts, ProbeRate : ProbeRates,
     MaxProbeAge : ProbeAges, DeltaReuse : DeltaReuses]

\* denominator := (1.0 - M/N*ProbeRate) - 1.0/MaxProbeAge.Seconds(), as the
\* fraction <<num, den>> with den > 0.
denominator(config) ==
    LET M == config.MaxProbePoolSize
        N == config.NumReplicas
        A == config.MaxProbeAge
        rn == config.ProbeRate[1]
        rd == config.ProbeRate[2]
    IN  <<(N * rd * A) - (M * rn * A) - (N * rd), N * rd * A>>

\* bReuse := (1.0 + DeltaReuse) / denominator for a denominator other than 0,
\* as the fraction <<num, den>> with den of the denominator's sign.
bReuseQuotient(config) ==
    LET d == denominator(config) IN
    <<(config.DeltaReuse[2] + config.DeltaReuse[1]) * d[2], config.DeltaReuse[2] * d[1]>>

\* int(+Inf): Go leaves the result of an out-of-range float conversion to the
\* implementation (the smallest int on amd64, the largest on arm64); the int
\* range is scaled to what TLC's integers hold.
IntOfInf == {-(2 ^ 30), 2 ^ 30}

\* calculateBReuse: the values it may return. A zero denominator makes bReuse
\* +Inf, which is not < 1.0 and goes through int(); a negative one makes
\* bReuse negative; otherwise int(bReuse) truncates.
calculateBReuse(config) ==
    LET d == denominator(config)
        q == bReuseQuotient(config)
    IN  IF d[1] = 0 THEN IntOfInf
        ELSE IF d[1] < 0 THEN {1}
        ELSE IF q[1] < q[2] THEN {1}
        ELSE {q[1] \div q[2]}

InitBReuse ==
    /\ probes = <<>>
    /\ maxRIF = 0
    /\ mu = FALSE
    /\ pc = "select"
    /\ idx = 0
    /\ done = FALSE
    /\ tickC = FALSE
    /\ now = 0
    /\ sel = NoSel
    /\ round = NoRound
    /\ evicted = NoEvict
    /\ start = <<>>
    /\ panicked = FALSE
    /\ poolMu = FALSE
    /\ \E config \in Configs : built = [NoBuilt EXCEPT !.config = config]
    /\ ServerInit

\* NewClient: config.MaxProbeUse = calculateBReuse(config).
NewClientBReuse ==
    /\ ~built.called
    /\ \E b \in calculateBReuse(built.config) :
          built' = [built EXCEPT !.called = TRUE, !.bReuse = b]
    /\ UNCHANGED <<probes, maxRIF, mu, pc, idx, done, tickC, now, sel, round, evicted>>
    /\ UNCHANGED <<start, panicked, poolMu>>
    /\ UNCHANGED srvVars

NextBReuse == NewClientBReuse

SpecBReuse == InitBReuse /\ [][NextBReuse]_vars

\* ------------------------------------- getNearestLatencies on drawn rings
\* The rings a replica holds after up to MaxRingLen requests have completed.
RingSamples == { Metric(r, l) : r \in RingRIFValues, l \in RingLatencyValues }

InitEstimate ==
    /\ ClientInit
    /\ srvRIF = 0
    /\ \E n \in 0..MaxRingLen : metrics \in [1..n -> RingSamples]
    /\ reqs = <<>>
    /\ metricsMu = FALSE
    /\ est = NoEst

\* A read lock that never blocks.
rLockIgnored(m) == TRUE

\* m.metricsMu.RLock() returns only when no recordMetric holds the lock.
rLockFree(m) == ~m

\* One call m.getNearestLatencies(q), under the read lock.
Estimate(q) ==
    /\ ~est.called
    /\ rLockFree(metricsMu)
    /\ est' = [called |-> TRUE, q |-> q, value |-> getNearestLatencies(metrics, q)]
    /\ UNCHANGED <<probes, maxRIF, mu, pc, idx, done, tickC, now, sel, round, evicted, built,
                   start, panicked, poolMu,
                   srvRIF, metrics, metricsMu, reqs>>

NextEstimate == \E q \in QueryValues : Estimate(q)

SpecEstimate == InitEstimate /\ [][NextEstimate]_vars

\* ------------------------------------------------ replica: HTTP handlers
\* Server.incrementRIF: atomic.AddUint64(&s.rif, 1), the new value.
incrementRIF(rif) == (rif + 1) % UintModulus

\* A decrement that leaves the counter as it was.
decrementRIFNoop(rif) == rif

\* Server.decrementRIF: atomic.AddUint64(&s.rif, ^uint64(0)).
decrementRIF(rif) == (rif + (UintModulus - 1)) % UintModulus

\* Server.getCurrentRIF: atomic.LoadUint64(&s.rif).
getCurrentRIF(rif) == rif

\* Start's mux: the application routes and the method each handler accepts.
AppPaths == {"/batch", "/ping", "/medium"}

ProbePath == "/probe"

Methods == {"GET", "POST"}

allowedMethod(path) == IF path \in {"/ping", ProbePath} THEN "GET" ELSE "POST"

StatusOK == 200
StatusBadRequest == 400
StatusMethodNotAllowed == 405

\* The handler's exit status: only /batch decodes a body and may reject it.
ExitStatuses(path) == IF path = "/batch" THEN {StatusOK, StatusBadRequest} ELSE {StatusOK}

ProbeResponse(rif, latency) == [RIF |-> rif, MedianLatency |-> latency]

\* A probe answer whose latency is estimated at RIF 0, not at the loaded RIF.
HandleProbeResponseAtZero(currentRIF, ms) ==
    ProbeResponse(currentRIF, getNearestLatencies(ms, 0))

\* HandleProbe's answer from the loaded counter value and the ring.
HandleProbeResponse(currentRIF, ms) ==
    ProbeResponse(currentRIF, getNearestLatencies(ms, currentRIF))

\* A handler goroutine: its request, its position, its local rif (the value
\* incrementRIF or getCurrentRIF returned), the status and the probe payload
\* it has written.
Handler(path, method, at, rif, status) ==
    [path |-> path, method |-> method, pc |-> at, rif |-> rif,
     status |-> status, payload |-> <<>>]

Rejected(path, method) == Handler(path, method, "done", 0, StatusMethodNotAllowed)

\* HandleBatchProcess / HandlePing / HandleMediumProcess from the request's
\* arrival to the deferred function's registration: the method check, then
\* incrementRIF.
HandleEnter(path, method) ==
    /\ Len(reqs) < MaxRequests
    /\ IF method # allowedMethod(path)
       THEN /\ reqs' = Append(reqs, Rejected(path, method))
            /\ UNCHANGED srvRIF
       ELSE /\ srvRIF' = incrementRIF(srvRIF)
            /\ reqs' = Append(reqs, Handler(path, method, "entered",
                                            incrementRIF(srvRIF), 0))
    /\ UNCHANGED <<probes, maxRIF, mu, pc, idx, done, tickC, now, sel, round, evicted, built,
                   start, panicked, poolMu,
                   metrics, metricsMu, est>>

\* The handler body returns with `status` and the deferred function begins:
\* decrementRIF.
HandleExit(i, status) ==
    /\ reqs[i].pc = "entered"
    /\ status \in ExitStatuses(reqs[i].path)
    /\ srvRIF' = decrementRIF(srvRIF)
    /\ reqs' = [reqs EXCEPT ![i].pc = "exited", ![i].status = status]
    /\ UNCHANGED <<probes, maxRIF, mu, pc, idx, done, tickC, now, sel, round, evicted, built,
                   start, panicked, poolMu,
                   metrics, metricsMu, est>>

\* A deferred function that records the counter as it stands at the exit.
HandleRecordCurrentRIF(i, duration) ==
    /\ reqs[i].pc = "exited"
    /\ ~metricsMu
    /\ metrics' = recordMetric(metrics, getCurrentRIF(srvRIF), duration)
    /\ reqs' = [reqs EXCEPT ![i].pc = "done"]
    /\ UNCHANGED <<probes, maxRIF, mu, pc, idx, done, tickC, now, sel, round, evicted, built,
                   start, panicked, poolMu,
                   srvRIF, metricsMu, est>>

\* The deferred function ends: recordMetric(rif, duration), one critical
\* section under metricsMu.
HandleRecord(i, duration) ==
    /\ reqs[i].pc = "exited"
    /\ ~metricsMu
    /\ metrics' = recordMetric(metrics, reqs[i].rif, duration)
    /\ reqs' = [reqs EXCEPT ![i].pc = "done"]
    /\ UNCHANGED <<probes, maxRIF, mu, pc, idx, done, tickC, now, sel, round, evicted, built,
                   start, panicked, poolMu,
                   srvRIF, metricsMu, est>>

\* HandleProbe from the request's arrival to getCurrentRIF: the method check,
\* then the atomic load.
HandleProbeLoad(method) ==
    /\ Len(reqs) < MaxRequests
    /\ reqs' = IF method # allowedMethod(ProbePath)
               THEN Append(reqs, Rejected(ProbePath, method))
               ELSE Append(reqs, Handler(ProbePath, method, "loaded",
                                         getCurrentRIF(srvRIF), 0))
    /\ UNCHANGED <<probes, maxRIF, mu, pc, idx, done, tickC, now, sel, round, evicted, built,
                   start, panicked, poolMu,
                   srvRIF, metrics, metricsMu, est>>

\* HandleProbe from getNearestLatencies (under the ring's read lock) to the
\* encoded ProbeResponse.
HandleProbeRespond(i) ==
    /\ reqs[i].pc = "loaded"
    /\ reqs' = [reqs EXCEPT ![i].pc = "done", ![i].status = StatusOK,
                            ![i].payload = <<HandleProbeResponse(reqs[i].rif, metrics)>>]
    /\ UNCHANGED <<probes, maxRIF, mu, pc, idx, done, tickC, now, sel, round, evicted, built,
                   start, panicked, poolMu,
                   srvRIF, metrics, metricsMu, est>>

\* A ring after six requests: three served alone, three as the second in flight.
ServedRing ==
    <<Metric(1, 1), Metric(2, 2), Metric(1, 1), Metric(2, 2), Metric(1, 1), Metric(2, 2)>>

InitServer ==
    /\ ClientInit
    /\ srvRIF = 0
    /\ metrics \in {<<>>, ServedRing}
    /\ reqs = <<>>
    /\ metricsMu = FALSE
    /\ est = NoEst

NextServer ==
    \/ \E path \in AppPaths, method \in Methods : HandleEnter(path, method)
    \/ \E i \in 1..Len(reqs), status \in {StatusOK, StatusBadRequest} : HandleExit(i, status)
    \/ \E i \in 1..Len(reqs), duration \in RequestDurations : HandleRecord(i, duration)
    \/ \E method \in Methods : HandleProbeLoad(method)
    \/ \E i \in 1..Len(reqs) : HandleProbeRespond(i)

SpecServer == InitServer /\ [][NextServer]_vars

\* ------------------------------------------------ recordMetric on a full ring
\* A ring that earlier requests have filled to n samples, the i-th of them
\* with latency i.
FilledRing(n) == [i \in 1..n |-> Metric(1, i)]

RingFills == {maxMetrics - 1, maxMetrics}

\* The RIF a probe asks an estimate for while requests complete in SpecRing.
RingQueries == {1}

InitRing ==
    /\ ClientInit
    /\ srvRIF = 0
    /\ \E n \in RingFills : metrics = FilledRing(n)
    /\ metricsMu = FALSE
    /\ reqs = <<>>
    /\ est = NoEst

\* recordMetric, first half: m.metricsMu.Lock(), then
\* m.metrics = append(m.metrics, metric).
RecordAppend(i, duration) ==
    /\ reqs[i].pc = "exited"
    /\ ~metricsMu
    /\ metricsMu' = TRUE
    /\ metrics' = Append(metrics, Metric(reqs[i].rif, duration))
    /\ reqs' = [reqs EXCEPT ![i].pc = "recording"]
    /\ UNCHANGED <<probes, maxRIF, mu, pc, idx, done, tickC, now, sel, round, evicted, built,
                   start, panicked, poolMu,
                   srvRIF, est>>

\* recordMetric, second half: if len(m.metrics) > m.maxMetrics
\* { m.metrics = m.metrics[1:] }, then the deferred Unlock.
RecordTrim(i) ==
    /\ reqs[i].pc = "recording"
    /\ metrics' = IF Len(metrics) > maxMetrics THEN Tail(metrics) ELSE metrics
    /\ metricsMu' = FALSE
    /\ reqs' = [reqs EXCEPT ![i].pc = "done"]
    /\ UNCHANGED <<probes, maxRIF, mu, pc, idx, done, tickC, now, sel, round, evicted, built,
                   start, panicked, poolMu,
                   srvRIF, est>>

NextRing ==
    \/ HandleEnter("/ping", "GET")
    \/ \E i \in 1..Len(reqs) : HandleExit(i, StatusOK)
    \/ \E i \in 1..Len(reqs), duration \in RequestDurations : RecordAppend(i, duration)
    \/ \E i \in 1..Len(reqs) : RecordTrim(i)
    \/ \E q \in RingQueries : Estimate(q)

SpecRing == InitRing /\ [][NextRing]_vars

\* ================================================================= claims
\* normalized_rif < Q_RIF, stated on the fraction.
Cold(p) == p.NormalizedRIF[1] * QDen < QNum * p.NormalizedRIF[2]

PreIdx == 1..Len(sel.pre)

SomeColdBefore == \E i \in PreIdx : Cold(sel.pre[i])

\* C1: if the pool holds a cold probe when SelectReplica runs, the call
\* succeeds, the probe it chose is cold and the returned server_id is that of
\* a cold probe of the pool.
C1_ColdPreferred ==
    (sel.called /\ SomeColdBefore) =>
        /\ ~sel.err
        /\ Len(sel.chosen) = 1
        /\ Cold(sel.chosen[1])
        /\ \E i \in PreIdx : Cold(sel.pre[i]) /\ sel.pre[i].ServerID = sel.id

\* A selection on a pool with a hot probe of lower latency than every cold one.
C1_Witness ==
    /\ sel.called
    /\ \E i, j \in PreIdx :
          /\ Cold(sel.pre[i])
          /\ ~Cold(sel.pre[j])
          /\ sel.pre[j].Latency < sel.pre[i].Latency
          /\ sel.pre[j].ServerID # sel.pre[i].ServerID
          /\ sel.id = sel.pre[i].ServerID

\* C2: with a cold probe in the pool, SelectReplica returns the server_id of
\* the cold probe of smallest rif, the earliest in pool order among equals.
C2_ColdSmallestRIF ==
    (sel.called /\ SomeColdBefore) =>
        \E i \in PreIdx :
            /\ Cold(sel.pre[i])
            /\ \A j \in PreIdx : Cold(sel.pre[j]) => sel.pre[i].RIF <= sel.pre[j].RIF
            /\ \A j \in 1..(i - 1) : Cold(sel.pre[j]) => sel.pre[j].RIF > sel.pre[i].RIF
            /\ sel.id = sel.pre[i].ServerID
            /\ sel.chosen = <<sel.pre[i]>>

\* A selection among cold probes of several rifs, two replicas sharing the
\* smallest, and a cold probe of larger rif standing first in the pool.
C2_Witness ==
    /\ sel.called
    /\ \E i, j, k \in PreIdx :
          /\ k < i /\ i < j
          /\ Cold(sel.pre[i]) /\ Cold(sel.pre[j]) /\ Cold(sel.pre[k])
          /\ sel.pre[i].RIF = sel.pre[j].RIF
          /\ sel.pre[k].RIF > sel.pre[i].RIF
          /\ sel.pre[i].ServerID # sel.pre[j].ServerID
          /\ sel.id = sel.pre[i].ServerID

\* C3: on a non-empty pool without cold probe, SelectReplica returns the
\* server_id of the (hot) probe of smallest latency, the earliest in pool
\* order among equals.
C3_HotSmallestLatency ==
    (sel.called /\ Len(sel.pre) > 0 /\ ~SomeColdBefore) =>
        \E i \in PreIdx :
            /\ \A j \in PreIdx : sel.pre[i].Latency <= sel.pre[j].Latency
            /\ \A j \in 1..(i - 1) : sel.pre[j].Latency > sel.pre[i].Latency
            /\ ~sel.err
            /\ sel.id = sel.pre[i].ServerID
            /\ sel.chosen = <<sel.pre[i]>>

\* A selection among hot probes only, where the probe of smallest latency has
\* the larger rif, shares its latency with a later probe of another replica
\* and does not stand first.
C3_Witness ==
    /\ sel.called
    /\ ~SomeColdBefore
    /\ \E i, j, k \in PreIdx :
          /\ k < i /\ i < j
          /\ sel.pre[i].Latency = sel.pre[j].Latency
          /\ sel.pre[k].Latency > sel.pre[i].Latency
          /\ sel.pre[k].RIF < sel.pre[i].RIF
          /\ sel.pre[i].ServerID # sel.pre[j].ServerID
          /\ sel.id = sel.pre[i].ServerID

PoolIdx == 1..Len(probes)

ServerIDs(ps) == { ps[i].ServerID : i \in 1..Len(ps) }

\* The probes the current / last round appended: the tail of the pool.
InsertedIdx == (Len(probes) - round.inserted + 1)..Len(probes)

\* A probe round has completed and none is in progress.
RoundCompleted == ~mu /\ round.finished

\* C4: a successful SelectReplica returns the server_id of a probe that is in
\* the pool it ran on (and still in the pool when it returns).
C4_ReturnedServerInPool ==
    (sel.called /\ ~sel.err) =>
        /\ sel.id \in ServerIDs(sel.pre)
        /\ sel.id \in ServerIDs(probes)

\* A successful selection, after rounds and an earlier selection, on a pool
\* that lacks a probe of some configured replica.
C4_Witness ==
    /\ sel.called
    /\ ~sel.err
    /\ round.finished
    /\ \E k \in 1..Len(Servers) : Servers[k] \notin ServerIDs(sel.pre)
    /\ \E i \in PreIdx : sel.pre[i].UseCount > 0

\* C5: SelectReplica on an empty pool returns the no-probes error and no
\* server_id and leaves pool and max_rif as they were; a call after a round
\* that inserted a probe succeeds.
C5_EmptyPoolError ==
    sel.called =>
        /\ (Len(sel.pre) = 0 =>
               /\ sel.err
               /\ sel.id = NoServer
               /\ probes = sel.pre
               /\ maxRIF = sel.preMax)
        /\ ((round.finished /\ round.inserted > 0) =>
               /\ ~sel.err
               /\ sel.id # NoServer)

\* A selection on a pool emptied by the purge of a round whose probes all
\* failed.
C5_Witness ==
    /\ sel.called
    /\ sel.err
    /\ Len(sel.pre) = 0
    /\ round.finished
    /\ round.stale > 0
    /\ round.inserted = 0

\* C6: whenever the pool mutex is free, every probe of the pool has
\* use_count < b_reuse.
C6_UseCountBelowBReuse ==
    ~mu => \A i \in PoolIdx : probes[i].UseCount < MaxProbeUse

\* C7: whenever the pool mutex is free, every probe of the pool has
\* now - timestamp < max_probe_age.
C7_AgeBelowMaxAge ==
    ~mu => \A i \in PoolIdx : now - probes[i].Timestamp < MaxProbeAge

\* C7 (amended): every probe of the pool was younger than max_probe_age at
\* the purge of the latest probe round.
C7_AgeBelowMaxAgeAtPurge ==
    \A i \in PoolIdx : round.purgeTime - probes[i].Timestamp < MaxProbeAge

\* Right after a purge that removed a probe and kept one of the oldest age
\* that passes.
C7_Witness ==
    /\ pc = "fanout"
    /\ idx = 1
    /\ round.stale > 0
    /\ \E i \in PoolIdx : round.purgeTime - probes[i].Timestamp = MaxProbeAge - 1

\* C8: after a completed probe round, |pool| <= M + N.
C8_PoolSizeBound ==
    RoundCompleted => Len(probes) <= MaxProbePoolSize + NumReplicas

\* C9: after a round in which every replica's probe succeeded, every
\* configured replica has an entry in the pool.
C9_EveryReplicaPresent ==
    (RoundCompleted /\ round.allOK) =>
        \A k \in 1..Len(Servers) : Servers[k] \in ServerIDs(probes)

\* After an all-successful round that evicted from a pool holding older probes.
C9_Witness ==
    /\ RoundCompleted
    /\ round.allOK
    /\ round.inserted = Len(Servers)
    /\ Len(probes) > Len(Servers)

\* C10: no step decreases max_rif, and when a round ends max_rif is at least
\* the rif of every probe the round inserted.
C10_MaxRIFMonotonic ==
    [][/\ maxRIF' >= maxRIF
       /\ (round'.finished =>
              \A i \in (Len(probes') - round'.inserted + 1)..Len(probes') :
                  probes'[i].RIF <= maxRIF')]_vars

\* A round has ended that inserted a probe of rif below a max_rif set earlier.
C10_Witness ==
    /\ RoundCompleted
    /\ round.inserted > 0
    /\ \A i \in InsertedIdx : probes[i].RIF < maxRIF

\* ---------------------------------------------------------------- C11
RingIdx == 1..Len(metrics)

Distance(i, q) == IF metrics[i].RIF >= q THEN metrics[i].RIF - q ELSE q - metrics[i].RIF

\* S holds n samples and none outside S is nearer to q than one inside.
NearestSet(S, n, q) ==
    /\ Cardinality(S) = n
    /\ \A i \in S : \A j \in RingIdx \ S : Distance(i, q) <= Distance(j, q)

\* v stands at 0-based position k of the ascending latencies of the samples S.
AtSortedPosition(v, S, k) ==
    /\ \E i \in S : metrics[i].Latency = v
    /\ Cardinality({i \in S : metrics[i].Latency < v}) <= k
    /\ Cardinality({i \in S : metrics[i].Latency <= v}) >= k + 1

Min(a, b) == IF a <= b THEN a ELSE b

\* C11: getNearestLatencies(q) is 0 on an empty ring, and otherwise, with
\* n = min(5, ring size), the element at index n div 2 of the ascending
\* latencies of n samples of smallest |rif - q|.
C11_NearestMedian ==
    est.called =>
        IF Len(metrics) = 0
        THEN est.value = 0
        ELSE LET n == Min(5, Len(metrics)) IN
             \E S \in SUBSET RingIdx :
                 /\ NearestSet(S, n, est.q)
                 /\ AtSortedPosition(est.value, S, n \div 2)

\* An estimate on a ring of more than 5 samples, at several distances from
\* the query, whose farthest samples hold a latency that the median does not.
C11_Witness ==
    /\ est.called
    /\ Len(metrics) > 5
    /\ \E i, j \in RingIdx :
          /\ Distance(i, est.q) < Distance(j, est.q)
          /\ metrics[j].Latency # est.value
          /\ Cardinality({k \in RingIdx : Distance(k, est.q) < Distance(j, est.q)}) >= 5
          /\ Cardinality({k \in RingIdx : metrics[k].Latency = metrics[j].Latency}) >= 3

\* ---------------------------------------------------------------- C12
ReqIdx == 1..Len(reqs)

\* The application requests that have entered and not yet exited.
InFlight == { i \in ReqIdx : reqs[i].path \in AppPaths /\ reqs[i].pc = "entered" }

\* C12: under every interleaving of the handlers the RIF counter equals the
\* number of application requests that have entered and not yet exited: it
\* never underflows, is 0 when none is in flight (bad-request exits included),
\* and probe requests and requests rejected with 405 do not change it.
C12_RIFCountsInFlight == srvRIF = Cardinality(InFlight)

\* The counter is back at 0 after a /batch request left on the bad-request
\* path, an application request was rejected with 405 and a probe was answered.
C12_Witness ==
    /\ srvRIF = 0
    /\ \E i \in ReqIdx : reqs[i].path = "/batch" /\ reqs[i].pc = "done"
                         /\ reqs[i].status = StatusBadRequest
    /\ \E i \in ReqIdx : reqs[i].path \in AppPaths
                         /\ reqs[i].status = StatusMethodNotAllowed
    /\ \E i \in ReqIdx : reqs[i].path = ProbePath /\ reqs[i].status = StatusOK

\* ---------------------------------------------------------------- C13
\* Overused (use_count >= b_reuse) or aged (now - timestamp >= max_probe_age).
Spent(p, t) == p.UseCount >= MaxProbeUse \/ t - p.Timestamp >= MaxProbeAge

\* The probes of the pool that the running round did not insert.
KeptIdx(ps, r) == 1..(Len(ps) - r.inserted)

\* C13: the step that starts a probe round leaves no overused or aged probe in
\* the pool and reports as stale exactly the number of such probes it found;
\* until the round ends the probes it kept are none of those it had to remove.
C13_PurgeRemovesSpent ==
    [][/\ (pc = "select" /\ pc' = "fanout") =>
            /\ \A j \in 1..Len(probes') : ~Spent(probes'[j], now)
            /\ round'.stale = Cardinality({i \in 1..Len(probes) : Spent(probes[i], now)})
       /\ (pc = "fanout") =>
            \A j \in KeptIdx(probes', round') : ~Spent(probes'[j], round'.purgeTime)
      ]_vars

\* A round has begun whose purge removed a probe and kept another.
C13_Witness ==
    /\ pc = "fanout"
    /\ idx = 1
    /\ round.stale >= 1
    /\ Len(probes) >= 1

\* ---------------------------------------------------------------- C14
\* C14: once Stop has returned (done is closed and the ticker stopped) the
\* prober starts no new probe round.
C14_NoRoundAfterStop == [][done => ~(pc = "select" /\ pc' = "fanout")]_vars

\* ---------------------------------------------------------------- C15
\* The probe handlers that the step starts, and those it completes.
ProbeStarted == { i \in 1..Len(reqs') : reqs'[i].path = ProbePath /\ i > Len(reqs) }

ProbeAnswered == { i \in ReqIdx : reqs[i].path = ProbePath /\ reqs[i].pc = "loaded"
                                  /\ reqs'[i].pc = "done" }

\* C15: a GET on the probe endpoint loads the counter once and answers 200
\* with that value r and the ring's estimate at r; any other method is
\* answered 405 with no probe payload.
C15_ProbeAnswer ==
    [][/\ \A i \in ProbeStarted :
            IF reqs'[i].method = "GET"
            THEN reqs'[i].pc = "loaded" /\ reqs'[i].rif = srvRIF
                 /\ reqs'[i].payload = <<>>
            ELSE reqs'[i].pc = "done" /\ reqs'[i].status = StatusMethodNotAllowed
                 /\ reqs'[i].payload = <<>>
       /\ \A i \in ProbeAnswered :
            /\ reqs'[i].status = StatusOK
            /\ reqs'[i].payload =
                   <<[RIF |-> reqs[i].rif,
                      MedianLatency |-> getNearestLatencies(metrics, reqs[i].rif)]>>
      ]_vars

\* A probe that loaded r = 1 was answered (1, estimate(1)) after the counter
\* had gone back to 0, and a POST on the probe endpoint was answered 405.
C15_Witness ==
    /\ srvRIF = 0
    /\ \E i \in ReqIdx : /\ reqs[i].path = ProbePath
                         /\ reqs[i].status = StatusOK
                         /\ Len(reqs[i].payload) = 1
                         /\ reqs[i].payload[1].RIF = 1
                         /\ reqs[i].payload[1].MedianLatency > 0
    /\ \E i \in ReqIdx : /\ reqs[i].path = ProbePath
                         /\ reqs[i].status = StatusMethodNotAllowed

\* ---------------------------------------------------------------- C16
\* The position in the pool of the entry that won the HCL comparison: the
\* first cold probe of smallest rif, or without cold probe the first probe
\* of smallest latency.
WonHCL(i) ==
    IF SomeColdBefore
    THEN /\ Cold(sel.pre[i])
         /\ \A j \in PreIdx : Cold(sel.pre[j]) => sel.pre[i].RIF <= sel.pre[j].RIF
         /\ \A j \in 1..(i - 1) : Cold(sel.pre[j]) => sel.pre[j].RIF > sel.pre[i].RIF
    ELSE /\ \A j \in PreIdx : sel.pre[i].Latency <= sel.pre[j].Latency
         /\ \A j \in 1..(i - 1) : sel.pre[j].Latency > sel.pre[i].Latency

\* C16: a successful SelectReplica adds 1 to the use_count of the pool entry
\* that won the HCL comparison and changes nothing else in the pool nor
\* max_rif, also when several entries carry the same server_id.
C16_OnlyChosenUseCount ==
    (sel.called /\ ~sel.err) =>
        /\ maxRIF = sel.preMax
        /\ \E i \in PreIdx :
              /\ WonHCL(i)
              /\ probes = [sel.pre EXCEPT ![i].UseCount = @ + 1]

\* ------------------------------------------------------- C17, C18, C20
EvictIdx == 1..Len(evicted.pre)

\* The pool without its entry at position i.
Without(ps, i) == SubSeq(ps, 1, i - 1) \o SubSeq(ps, i + 1, Len(ps))

SomeHotEvictable == \E i \in EvictIdx : ~Cold(evicted.pre[i])

\* C17: on a pool with a hot probe, evict-one removes the hot probe of
\* largest rif, the earliest in pool order among equals, also when several
\* entries carry the same server_id.
C17_EvictsHottest ==
    (evicted.called /\ SomeHotEvictable) =>
        \E i \in EvictIdx :
            /\ ~Cold(evicted.pre[i])
            /\ \A j \in EvictIdx :
                  ~Cold(evicted.pre[j]) => evicted.pre[j].RIF <= evicted.pre[i].RIF
            /\ \A j \in 1..(i - 1) :
                  ~Cold(evicted.pre[j]) => evicted.pre[j].RIF < evicted.pre[i].RIF
            /\ probes = Without(evicted.pre, i)

\* C18: on a non-empty pool of cold probes only, evict-one removes a probe of
\* largest latency, also when several entries carry the same server_id.
C18_EvictsSlowestCold ==
    (evicted.called /\ Len(evicted.pre) > 0 /\ ~SomeHotEvictable) =>
        \E i \in EvictIdx :
            /\ \A j \in EvictIdx : evicted.pre[j].Latency <= evicted.pre[i].Latency
            /\ probes = Without(evicted.pre, i)

\* C20: evict-one removes exactly one entry of a non-empty pool and leaves
\* the others as they were, in their order; an empty pool stays empty.
C20_EvictsExactlyOne ==
    evicted.called =>
        IF Len(evicted.pre) = 0
        THEN probes = <<>>
        ELSE /\ Len(probes) = Len(evicted.pre) - 1
             /\ \E i \in EvictIdx : probes = Without(evicted.pre, i)

\* An eviction from a pool of three probes, two of them of the replica that
\* lost a probe, which keeps its other one.
C20_Witness ==
    /\ evicted.called
    /\ Len(evicted.pre) = 3
    /\ \E i, j \in EvictIdx :
          /\ i < j
          /\ evicted.pre[i].ServerID = evicted.pre[j].ServerID
          /\ evicted.pre[i] # evicted.pre[j]
          /\ probes = Without(evicted.pre, i)
          /\ probes # Without(evicted.pre, j)

\* ---------------------------------------------------------------- C19
\* C19: when the fan-out of a probe round begins, after purge and eviction,
\* the pool holds fewer than M probes.
C19_CapacityReserve ==
    (pc = "fanout" /\ idx = 1 /\ round.inserted = 0) => Len(probes) < MaxProbePoolSize

\* ---------------------------------------------------------------- C21
\* C21: whenever no probe round is running, every probe of the pool carries
\* normalized_rif = rif / max_rif for the current max_rif (1 when max_rif is
\* 0); so its rif is at most max_rif and normalized_rif lies in [0, 1].
C21_NormalizedAgainstMaxRIF ==
    ~mu =>
        \A i \in PoolIdx :
            /\ probes[i].RIF <= maxRIF
            /\ IF maxRIF > 0
               THEN /\ probes[i].NormalizedRIF[1] * maxRIF
                          = probes[i].RIF * probes[i].NormalizedRIF[2]
                    /\ probes[i].NormalizedRIF[2] > 0
               ELSE probes[i].NormalizedRIF = <<1, 1>>
            /\ 0 <= probes[i].NormalizedRIF[1]
            /\ probes[i].NormalizedRIF[1] <= probes[i].NormalizedRIF[2]

\* A completed round raised max_rif above the rif of a probe of an earlier
\* round, whose normalized_rif is now below 1.
C21_Witness ==
    /\ ~mu
    /\ round.finished
    /\ \E i, j \in PoolIdx :
          /\ probes[i].Timestamp < probes[j].Timestamp
          /\ probes[j].Timestamp = round.purgeTime
          /\ probes[j].RIF = maxRIF
          /\ probes[i].RIF < maxRIF
          /\ probes[i].NormalizedRIF[1] < probes[i].NormalizedRIF[2]

\* ---------------------------------------------------------------- C22
\* C22: the pool critical sections exclude each other: a probe round holds
\* the lock from its start to its end, no round starts and no SelectReplica
\* runs while it is held, so a selection sees the pool of a round boundary.
C22_MutualExclusion ==
    [][/\ (pc = "fanout") => mu
       /\ (pc' = "fanout") => mu'
       /\ mu => ~sel'.called
       /\ (pc = "select" /\ pc' = "fanout") => ~mu
       /\ sel'.called => (pc = "select" \/ pc = "exited")
      ]_vars

\* A selection right after a completed round that inserted a probe of every
\* replica: it ran on a pool that ends with those probes, all normalised.
C22_Witness ==
    /\ sel.called
    /\ round.finished
    /\ round.inserted = NumReplicas
    /\ Len(sel.pre) >= NumReplicas
    /\ \A k \in 0..(NumReplicas - 1) :
          /\ sel.pre[Len(sel.pre) - k].Timestamp = round.purgeTime
          /\ sel.pre[Len(sel.pre) - k].NormalizedRIF
                 = updateRIFDistribution(sel.pre[Len(sel.pre) - k], maxRIF).NormalizedRIF
    /\ maxRIF > 0

\* ---------------------------------------------------------------- C23
\* One iteration of the fan-out loop, and the end of the round.
FanoutStep == pc = "fanout" /\ pc' = "fanout" /\ idx' # idx

RoundEnd == pc = "fanout" /\ pc' = "select"

SameButNormalized(p, q) == [p EXCEPT !.NormalizedRIF = q.NormalizedRIF] = q

\* C23: a failed probe adds no entry and leaves max_rif alone; the loop goes
\* on to the next replica whatever the outcome, the round ends only after the
\* last replica, and a round whose probes all failed leaves the probes it
\* kept, renormalised, and nothing else.
C23_FailedProbeSkipped ==
    [][/\ FanoutStep =>
            /\ idx <= NumReplicas
            /\ idx' = idx + 1
            /\ \/ /\ round'.inserted = round.inserted
                  /\ ~round'.allOK
                  /\ probes' = probes
                  /\ maxRIF' = maxRIF
               \/ /\ round'.inserted = round.inserted + 1
                  /\ Len(probes') = Len(probes) + 1
                  /\ SubSeq(probes', 1, Len(probes)) = probes
                  /\ probes'[Len(probes')].ServerID = Servers[idx]
       /\ RoundEnd =>
            /\ idx = NumReplicas + 1
            /\ round.inserted = 0 =>
                  /\ Len(probes') = Len(probes)
                  /\ \A i \in PoolIdx : SameButNormalized(probes[i], probes'[i])
                  /\ maxRIF' = maxRIF
      ]_vars

\* A completed round in which the first replica failed and the second was
\* inserted, following a round that had left a probe.
C23_Witness ==
    /\ round.finished
    /\ ~round.allOK
    /\ round.inserted = 1
    /\ Len(probes) >= 2
    /\ probes[Len(probes)].ServerID = Servers[NumReplicas]
    /\ probes[Len(probes)].Timestamp = round.purgeTime
    /\ probes[1].Timestamp < round.purgeTime

\* ---------------------------------------------------------------- C24
RoundStart == pc = "select" /\ pc' = "fanout"

\* ps is qs with some entries taken out, the others in their order.
RECURSIVE IsSubsequence(_, _)
IsSubsequence(ps, qs) ==
    IF Len(ps) = 0 THEN TRUE
    ELSE IF Len(qs) = 0 THEN FALSE
    ELSE IF Head(ps) = Head(qs) THEN IsSubsequence(Tail(ps), Tail(qs))
    ELSE IsSubsequence(ps, Tail(qs))

\* C24: a round removes probes in its first step only, before any insertion;
\* each insertion appends at the end of the pool a probe with use_count 0 and
\* the current time as timestamp; nothing is removed from then to the end of
\* the round, so no probe is purged or evicted in the round that inserted it.
C24_InsertAfterRemoval ==
    [][/\ RoundStart =>
            /\ round'.inserted = 0
            /\ IsSubsequence(probes', probes)
       /\ FanoutStep =>
            \/ probes' = probes
            \/ /\ round'.inserted = round.inserted + 1
               /\ SubSeq(probes', 1, Len(probes)) = probes
               /\ Len(probes') = Len(probes) + 1
               /\ probes'[Len(probes')].UseCount = 0
               /\ probes'[Len(probes')].Timestamp = now
       /\ RoundEnd =>
            /\ Len(probes') = Len(probes)
            /\ \A i \in PoolIdx : SameButNormalized(probes[i], probes'[i])
      ]_vars

\* A round that purged a probe and kept another has inserted its second
\* probe behind them.
C24_Witness ==
    /\ pc = "fanout"
    /\ round.stale >= 1
    /\ round.inserted = 2
    /\ Len(probes) >= 3
    /\ probes[Len(probes)].Timestamp >= round.purgeTime
    /\ probes[Len(probes)].UseCount = 0
    /\ probes[1].Timestamp < round.purgeTime

\* ---------------------------------------------------------------- C25
\* The prober has left between rounds: lock released, no fan-out under way.
ExitedClean == ~mu /\ idx = 0 /\ (round = NoRound \/ round.finished)

\* The prober waits in ProbeServer for the answer of a replica.
AwaitingProbe == pc = "fanout" /\ idx <= NumReplicas

C26_RingBoundedFIFO ==
    [][/\ ~metricsMu => Len(metrics) <= maxMetrics
       /\ \A i \in ReqIdx : (reqs[i].pc = "exited" /\ reqs'[i].pc = "recording") =>
             /\ SubSeq(metrics', 1, Len(metrics)) = metrics
             /\ Len(metrics') = Len(metrics) + 1
             /\ metrics'[Len(metrics')].RIF = reqs[i].rif
       /\ \A i \in ReqIdx : (reqs[i].pc = "recording" /\ reqs'[i].pc = "done") =>
             /\ ~metricsMu'
             /\ Len(metrics') <= maxMetrics
             /\ IF Len(metrics) > maxMetrics
                THEN metrics' = SubSeq(metrics, 2, Len(metrics))
                ELSE metrics' = metrics
       /\ est' # est => (~metricsMu /\ Len(metrics) <= maxMetrics)
      ]_vars

\* Two records on a full ring: the two oldest samples have gone, the ring is
\* full and ends with the two new samples.
C26_Witness ==
    /\ ~metricsMu
    /\ Len(metrics) = maxMetrics
    /\ metrics[1] = Metric(1, 3)
    /\ metrics[maxMetrics - 2] = Metric(1, maxMetrics)
    /\ \E i, j \in ReqIdx : i # j /\ reqs[i].pc = "done" /\ reqs[j].pc = "done"
    /\ est.called

\* ---------------------------------------------------------------- C27
\* The application requests that passed the method check and completed.
Completed(rs) ==
    { i \in 1..Len(rs) : rs[i].path \in AppPaths /\ rs[i].pc = "done"
                         /\ rs[i].status # StatusMethodNotAllowed }

\* C27: each application request that passes the method check takes as its
\* rif the value its increment returned, and on completion, bad request or
\* not, records exactly one sample, carrying that rif whatever the counter
\* has become.
C27_SampleCarriesEntryRIF ==
    [][/\ \A i \in 1..Len(reqs') :
             (i > Len(reqs) /\ reqs'[i].pc = "entered") =>
                 (reqs'[i].rif = srvRIF + 1 /\ srvRIF' = srvRIF + 1)
       /\ \A i \in ReqIdx : reqs[i].pc \in {"entered", "exited"} => reqs'[i].rif = reqs[i].rif
       /\ \A i \in ReqIdx : (reqs[i].pc = "exited" /\ reqs'[i].pc = "done") =>
             /\ Len(metrics') = Len(metrics) + 1
             /\ SubSeq(metrics', 1, Len(metrics)) = metrics
             /\ metrics'[Len(metrics')].RIF = reqs[i].rif
       /\ Len(metrics') - Len(metrics)
              = Cardinality(Completed(reqs')) - Cardinality(Completed(reqs))
      ]_vars

\* Two overlapping requests have completed, one of them on the bad-request
\* path; the last sample carries rif 2 although the counter is back at 0.
C27_Witness ==
    /\ srvRIF = 0
    /\ Cardinality(Completed(reqs)) = 2
    /\ \E i \in Completed(reqs) : reqs[i].status = StatusBadRequest
    /\ Len(metrics) >= 2
    /\ metrics[Len(metrics)].RIF = 2
    /\ metrics[Len(metrics) - 1].RIF = 1

\* ---------------------------------------------------------------- C28
\* The least integer not below num / den, for den > 0.
Ceiling(num, den) == IF num % den = 0 THEN num \div den ELSE (num \div den) + 1

\* C28: b_reuse is max(1, ceiling((1 + delta_reuse) / denom)) when denom > 0
\* and 1 when denom <= 0; it is never below 1.
C28_BReuseClamped ==
    built.called =>
        LET d == denominator(built.config)
            q == bReuseQuotient(built.config)
        IN  /\ built.bReuse >= 1
            /\ built.bReuse = IF d[1] > 0
                              THEN (IF Ceiling(q[1], q[2]) < 1 THEN 1
                                    ELSE Ceiling(q[1], q[2]))
                              ELSE 1

\* ---------------------------------------------------------------- C29
\* C29: the probes that the running or last probe round inserted, the last
\* round.inserted entries of the pool, carry pairwise distinct server_ids.
C29_OnePerServerPerRound ==
    \A i, j \in InsertedIdx : i # j => probes[i].ServerID # probes[j].ServerID

\* A completed round inserted a probe of each replica behind the probes that
\* an earlier round had inserted for the same replicas.
C29_Witness ==
    /\ round.finished
    /\ round.inserted = NumReplicas
    /\ Len(probes) >= 2 * NumReplicas - 1
    /\ \E i \in PoolIdx \ InsertedIdx, j \in InsertedIdx :
          probes[i].ServerID = probes[j].ServerID

\* ---------------------------------------------------------------- C30
ReportsNoLatency(p) == p.Latency = 0

\* C30: if the pool holds a cold probe of latency 0 when SelectReplica runs,
\* the call returns the replica of such a probe.
C30_ZeroLatencyColdPreferred ==
    (sel.called /\ \E i \in PreIdx : Cold(sel.pre[i]) /\ ReportsNoLatency(sel.pre[i])) =>
        \E i \in PreIdx : /\ Cold(sel.pre[i])
                          /\ ReportsNoLatency(sel.pre[i])
                          /\ sel.id = sel.pre[i].ServerID

\* C30 amended: latency 0 is the smallest latency and wins the hot branch: on
\* a pool without cold probe that holds a probe of latency 0, SelectReplica
\* chooses such a probe and returns its replica. With a cold probe in the
\* pool latency plays no part: the probe chosen is a cold one of smallest rif.
C30_ZeroLatencyWinsHotBranch ==
    sel.called =>
        /\ (~SomeColdBefore /\ \E i \in PreIdx : ReportsNoLatency(sel.pre[i])) =>
              /\ ~sel.err
              /\ ReportsNoLatency(sel.chosen[1])
              /\ \E i \in PreIdx : sel.pre[i] = sel.chosen[1] /\ sel.id = sel.pre[i].ServerID
        /\ SomeColdBefore =>
              /\ Cold(sel.chosen[1])
              /\ \A j \in PreIdx : Cold(sel.pre[j]) => sel.chosen[1].RIF <= sel.pre[j].RIF

\* A selection among hot probes only: the probe of latency 0 stands behind a
\* probe of another replica with a larger latency, and its replica is returned.
C30_Witness ==
    /\ sel.called
    /\ ~SomeColdBefore
    /\ \E i, j \in PreIdx :
          /\ i < j
          /\ ~ReportsNoLatency(sel.pre[i])
          /\ ReportsNoLatency(sel.pre[j])
          /\ sel.pre[i].ServerID # sel.pre[j].ServerID
          /\ sel.id = sel.pre[j].ServerID
          /\ sel.chosen = <<sel.pre[j]>>

\* ---------------------------------------------------------------- C31
\* The probes of ps with their normalized_rif blanked.
Unnormalized(ps) == [i \in 1..Len(ps) |-> [ps[i] EXCEPT !.NormalizedRIF = <<1, 1>>]]

\* C31: at the end of a probe round the pool is the probes of the pool the
\* round found that it neither purged nor evicted, in their order and with
\* their server_id, rif, latency, timestamp and use_count, followed by the
\* probes the round inserted, none of them older than the round; while the
\* round runs the probes it kept are not touched at all.
C31_SurvivorsKeepFieldsAndOrder ==
    [][/\ (pc = "fanout") =>
            LET k == Len(probes) - round.inserted IN
            /\ k >= 0
            /\ IsSubsequence(SubSeq(probes, 1, k), start)
            /\ SubSeq(probes', 1, k) = SubSeq(probes, 1, k) \/ RoundEnd
       /\ RoundEnd =>
            LET k == Len(probes') - round'.inserted IN
            /\ IsSubsequence(Unnormalized(SubSeq(probes', 1, k)), Unnormalized(start))
            /\ Len(start) - k <= round.stale + 1
            /\ \A i \in 1..Len(probes') :
                  IF i <= k THEN probes'[i].Timestamp <= round.purgeTime
                  ELSE /\ probes'[i].Timestamp >= round.purgeTime
                       /\ probes'[i].UseCount = 0
      ]_vars

\* A round is at its end that found three probes or more, purged one, evicted
\* one, kept one and inserted one, and whose normalisation will change the
\* probe it kept.
C31_Witness ==
    /\ pc = "fanout"
    /\ idx > NumReplicas
    /\ Len(start) >= 3
    /\ round.stale >= 1
    /\ round.inserted >= 1
    /\ Len(probes) - round.inserted >= 1
    /\ Len(start) - round.stale > Len(probes) - round.inserted
    /\ normalizeAll(probes, maxRIF)[1] # probes[1]

\* ---------------------------------------------------------------- C32
\* The probes of ps with their use_count blanked.
Unused(ps) == [i \in 1..Len(ps) |-> [ps[i] EXCEPT !.UseCount = 0]]

\* C32: a selection returns what it would return on the same pool with every
\* use_count at 0, so of two selections with no probe round between them the
\* second returns the server_id (or the error) of the first, and it counts
\* its use on the very probe the first counted on.
C32_SameReplicaBetweenRounds ==
    [][sel'.called =>
          /\ sel'.id = SelectReplicaOn(Unused(sel'.pre)).id
          /\ sel'.err = SelectReplicaOn(Unused(sel'.pre)).err
          /\ Unused(probes') = Unused(sel'.pre)
          /\ sel.called =>
                /\ sel'.id = sel.id
                /\ sel'.err = sel.err
                /\ sel'.pre = probes
                /\ \A i \in 1..Len(probes') :
                      probes'[i].UseCount - sel.pre[i].UseCount \in {0, 2}
      ]_vars

\* A second selection in a row on a pool that holds cold probes of two
\* replicas: it returned the replica of the first, whose probe is now used
\* twice, and left the probe of the other replica unused.
C32_Witness ==
    /\ sel.called
    /\ ~sel.err
    /\ \E i, j \in 1..Len(probes) :
          /\ probes[i].ServerID = sel.id
          /\ probes[i].UseCount = 2
          /\ probes[j].ServerID # sel.id
          /\ probes[j].UseCount = 0
          /\ Cold(probes[i])
          /\ Cold(probes[j])

\* ---------------------------------------------------------------- C33
\* The pool mutex is held by a running probe round only, which has a step to
\* take: a probe request under way, or the end of the round.
HolderCanStep == mu => (pc = "fanout" /\ idx \in 1..(NumReplicas + 1))

\* C33: with probe requests that return, the prober, the SelectReplica
\* callers and Stop never block each other for good: the pool mutex is
\* always released again, its holder always has a step to take, and the
\* server-list read lock is taken and given back inside the pool mutex, never
\* the other way round.
C33_NoDeadlock ==
    /\ [](poolMu => mu)
    /\ []HolderCanStep
    /\ [][/\ (~mu /\ mu') => ~poolMu
          /\ (mu /\ ~mu') => ~poolMu'
          /\ (~done /\ done') => (mu' = mu /\ poolMu' = poolMu)
         ]_vars
    /\ mu ~> ~mu

\* After Stop the last round has ended and given both locks back, the prober
\* has exited, time has passed and a caller has selected a replica.
C33_Witness ==
    /\ done
    /\ pc = "exited"
    /\ round.finished
    /\ round.purgeTime < now
    /\ sel.called
    /\ ~sel.err
    /\ ~mu
    /\ ~poolMu

\* ---------------------------------------------------------------- C34
\* C34: a Stop call on a client that is stopped already returns without a
\* panic: the process lives on and the client stays stopped.
C34_StopTwiceSafe == ~panicked /\ (pc = "exited" => done)

====
